---- MODULE Spec2Model ----
(***************************************************************************)
(* Model of entities.py: the five data entities User, Item, ItemType,      *)
(* Demand and Application, with their constructors, to_dict and from_dict.  *)
(*                                                                         *)
(* Python values are modelled as follows.                                  *)
(*   str            a TLA+ string.  The Chinese literals of the source are   *)
(*                  transliterated, since the module is ASCII:             *)
(*                    "普通用户" -> "putong_yonghu"                         *)
(*                    "已发布"   -> "yi_fabu"                               *)
(*                    "待处理"   -> "dai_chuli"                             *)
(*   dict           a function whose DOMAIN is the set of keys             *)
(*   list           an address into `heap`; heap[a] is the list's content, *)
(*                  so that two references to one list object are aliases  *)
(*   instance       [cls |-> class name, f |-> the instance's __dict__]    *)
(*   raised KeyError  [cls |-> "KeyError", key |-> the key looked up]      *)
(* A method is an operator that returns a record holding its return value  *)
(* (ret) and the state, after the call, of the mutable object it was given *)
(* (self for to_dict, data for from_dict).                                 *)
(***************************************************************************)
EXTENDS Naturals, Sequences, FiniteSets, TLC

----------------------------------------------------------------------------
(* Bounds of the model *)

\* the wall clock runs from tick 0 to tick MaxClock
MaxClock == 2
\* clock ticks per second: datetime.now() is finer than the %S of strftime
TicksPerSecond == 2
\* longest attribute list a caller passes
MaxAttrs == 2
\* entity instances and mappings the caller holds in one session
MaxObjects == 3
\* in-place mutations by the caller in one session
MaxMuts == 1

----------------------------------------------------------------------------
(* State *)

VARIABLES
    clock,   \* the wall clock, in ticks
    heap,    \* the list objects: heap[a] is the content of the list at address a
    ent,     \* the entity instances the caller holds
    eby,     \* eby[i]: the call that made ent[i], with its arguments
    dic,     \* the mappings the caller holds
    dby,     \* dby[j]: where dic[j] comes from
    muts,    \* number of in-place changes the caller has made
    last     \* the most recent call: its arguments, result and clock readings

----------------------------------------------------------------------------
(* Values *)

DEFAULT_ROLE == "putong_yonghu"
DEFAULT_IMAGE == ""
DEFAULT_STATUS == "yi_fabu"
DEFAULT_APP_STATUS == "dai_chuli"

\* a create_time written by an earlier run of the program
OldStamp == "2023-12-31 08:00:00"
\* the string a caller supplies for key k, one per key
StrOf(k) == IF k = "create_time" THEN OldStamp ELSE k \o "_1"
Labels == {"zuozhe", "chubanshe"}

Classes == {"User", "Item", "ItemType", "Demand", "Application"}
TimeClasses == {"Item", "Demand", "Application"}

\* the wall clock at tick 0, as <<hour, minute, second>> of 2024-01-01
SessionStart == <<9, 59, 59>>

Digit == <<"0", "1", "2", "3", "4", "5", "6", "7", "8", "9">>

TwoDigits(n) == Digit[(n \div 10) + 1] \o Digit[(n % 10) + 1]

\* datetime.now().strftime("%Y-%m-%d %H:%M:%S") for the reading `now` (a tick):
\* the sub-second part is dropped and the three fields are zero padded
Strftime(now) ==
    LET total == SessionStart[1] * 3600 + SessionStart[2] * 60 + SessionStart[3]
                 + (now \div TicksPerSecond)
    IN "2024-01-01 " \o TwoDigits((total \div 3600) % 24) \o ":"
         \o TwoDigits((total \div 60) % 60) \o ":" \o TwoDigits(total % 60)

\* dict.get(k, default)
Get(data, k, default) == IF k \in DOMAIN data THEN data[k] ELSE default

KeyError(k) == [cls |-> "KeyError", key |-> k]

\* data[k] for each k of `order` in turn: the index of the first lookup that
\* raises, 0 when none does
FirstMissing(data, order) ==
    LET bad == {i \in 1..Len(order) : order[i] \notin DOMAIN data}
    IN IF bad = {} THEN 0 ELSE CHOOSE i \in bad : \A j \in bad : i <= j

----------------------------------------------------------------------------
(* class User *)

User_init(kw) ==
    [cls |-> "User",
     f |-> [user_id |-> kw["user_id"],
            username |-> kw["username"],
            password |-> kw["password"],
            contact_info |-> kw["contact_info"],
            role |-> Get(kw, "role", DEFAULT_ROLE)]]

User_to_dict(self) ==
    [ret |-> [user_id |-> self.f["user_id"],
              username |-> self.f["username"],
              password |-> self.f["password"],
              contact_info |-> self.f["contact_info"],
              role |-> self.f["role"]],
     self |-> self]

User_lookups == <<"user_id", "username", "password", "contact_info">>

\* mutant: role=data.get("role") or "普通用户", which replaces a stored "" too
User_from_dict_falsy_role(data) ==
    LET miss == FirstMissing(data, User_lookups)
        role == Get(data, "role", DEFAULT_ROLE)
    IN IF miss # 0
       THEN [ret |-> KeyError(User_lookups[miss]), data |-> data]
       ELSE [ret |-> User_init([user_id |-> data["user_id"],
                                username |-> data["username"],
                                password |-> data["password"],
                                contact_info |-> data["contact_info"],
                                role |-> IF role = "" THEN DEFAULT_ROLE ELSE role]),
             data |-> data]

\* mutant: return cls(**data), which raises TypeError on a key that is no parameter
User_from_dict_kwargs(data) ==
    LET miss == FirstMissing(data, User_lookups)
        extra == DOMAIN data \ {"user_id", "username", "password", "contact_info", "role"}
    IN IF miss # 0
       THEN [ret |-> KeyError(User_lookups[miss]), data |-> data]
       ELSE IF extra # {}
       THEN [ret |-> [cls |-> "TypeError", key |-> CHOOSE k \in extra : TRUE],
             data |-> data]
       ELSE [ret |-> User_init(data), data |-> data]

User_from_dict(data) ==
    LET miss == FirstMissing(data, User_lookups)
    IN IF miss # 0
       THEN [ret |-> KeyError(User_lookups[miss]), data |-> data]
       ELSE [ret |-> User_init([user_id |-> data["user_id"],
                                username |-> data["username"],
                                password |-> data["password"],
                                contact_info |-> data["contact_info"],
                                role |-> Get(data, "role", DEFAULT_ROLE)]),
             data |-> data]

----------------------------------------------------------------------------
(* class Item *)

Item_init(kw, now) ==
    [cls |-> "Item",
     f |-> [item_id |-> kw["item_id"],
            item_name |-> kw["item_name"],
            description |-> kw["description"],
            item_type |-> kw["item_type"],
            image |-> Get(kw, "image", DEFAULT_IMAGE),
            contact_info |-> kw["contact_info"],
            status |-> Get(kw, "status", DEFAULT_STATUS),
            owner_id |-> kw["owner_id"],
            create_time |-> Strftime(now)]]

\* mutant: to_dict stamps the instance and the mapping with the time of the call
\* (`clock` is the state variable declared below)
Item_to_dict_restamps(self) ==
    LET stamped == [self EXCEPT !.f["create_time"] = Strftime(clock)]
    IN [ret |-> [item_id |-> stamped.f["item_id"],
                 item_name |-> stamped.f["item_name"],
                 description |-> stamped.f["description"],
                 item_type |-> stamped.f["item_type"],
                 image |-> stamped.f["image"],
                 contact_info |-> stamped.f["contact_info"],
                 status |-> stamped.f["status"],
                 owner_id |-> stamped.f["owner_id"],
                 create_time |-> stamped.f["create_time"]],
        self |-> stamped]

Item_to_dict(self) ==
    [ret |-> [item_id |-> self.f["item_id"],
              item_name |-> self.f["item_name"],
              description |-> self.f["description"],
              item_type |-> self.f["item_type"],
              image |-> self.f["image"],
              contact_info |-> self.f["contact_info"],
              status |-> self.f["status"],
              owner_id |-> self.f["owner_id"],
              create_time |-> self.f["create_time"]],
     self |-> self]

Item_lookups ==
    <<"item_id", "item_name", "description", "item_type", "contact_info", "owner_id">>

\* mutant: the statement item.create_time = data.get("create_time", ...) is
\* missing, so the constructor's stamp stays
Item_from_dict_keeps_init_stamp(data, now1, now2) ==
    LET miss == FirstMissing(data, Item_lookups)
    IN IF miss # 0
       THEN [ret |-> KeyError(Item_lookups[miss]), data |-> data]
       ELSE [ret |-> Item_init([item_id |-> data["item_id"],
                                item_name |-> data["item_name"],
                                description |-> data["description"],
                                item_type |-> data["item_type"],
                                contact_info |-> data["contact_info"],
                                owner_id |-> data["owner_id"],
                                image |-> Get(data, "image", DEFAULT_IMAGE),
                                status |-> Get(data, "status", DEFAULT_STATUS)], now1),
             data |-> data]

\* mutant: owner_id=data.get("owner_id", ""), so a mapping without owner_id
\* yields an entity
Item_from_dict_lenient(data, now1, now2) ==
    LET lookups == <<"item_id", "item_name", "description", "item_type", "contact_info">>
        miss == FirstMissing(data, lookups)
        item == Item_init([item_id |-> data["item_id"],
                           item_name |-> data["item_name"],
                           description |-> data["description"],
                           item_type |-> data["item_type"],
                           contact_info |-> data["contact_info"],
                           owner_id |-> Get(data, "owner_id", ""),
                           image |-> Get(data, "image", DEFAULT_IMAGE),
                           status |-> Get(data, "status", DEFAULT_STATUS)], now1)
    IN IF miss # 0
       THEN [ret |-> KeyError(lookups[miss]), data |-> data]
       ELSE [ret |-> [item EXCEPT !.f["create_time"] =
                                     Get(data, "create_time", Strftime(now2))],
             data |-> data]

\* now1 is the clock reading of the constructor, now2 the one of the default
\* argument of data.get("create_time", ...), which Python evaluates always
Item_from_dict(data, now1, now2) ==
    LET miss == FirstMissing(data, Item_lookups)
        item == Item_init([item_id |-> data["item_id"],
                           item_name |-> data["item_name"],
                           description |-> data["description"],
                           item_type |-> data["item_type"],
                           contact_info |-> data["contact_info"],
                           owner_id |-> data["owner_id"],
                           image |-> Get(data, "image", DEFAULT_IMAGE),
                           status |-> Get(data, "status", DEFAULT_STATUS)], now1)
    IN IF miss # 0
       THEN [ret |-> KeyError(Item_lookups[miss]), data |-> data]
       ELSE [ret |-> [item EXCEPT !.f["create_time"] =
                                     Get(data, "create_time", Strftime(now2))],
             data |-> data]

----------------------------------------------------------------------------
(* class ItemType.  Its methods handle a list, so they are given the heap h    *)
(* and return it.                                                           *)

\* s without the later occurrences of a repeated element
Dedup(s) ==
    LET F[i \in 0..Len(s)] ==
            IF i = 0 THEN <<>>
            ELSE IF \E j \in 1..(i - 1) : s[j] = s[i] THEN F[i - 1]
            ELSE Append(F[i - 1], s[i])
    IN F[Len(s)]

\* mutant: self.attributes = list(dict.fromkeys(attributes)), a new list
\* without the repeated labels
ItemType_init_dedup(kw, h) ==
    [ret |-> [cls |-> "ItemType",
              f |-> [type_id |-> kw["type_id"],
                     type_name |-> kw["type_name"],
                     attributes |-> Len(h) + 1]],
     heap |-> Append(h, Dedup(h[kw["attributes"]]))]

\* kw["attributes"] is a reference to the caller's list; it is stored as is
ItemType_init(kw, h) ==
    [ret |-> [cls |-> "ItemType",
              f |-> [type_id |-> kw["type_id"],
                     type_name |-> kw["type_name"],
                     attributes |-> kw["attributes"]]],
     heap |-> h]

ItemType_to_dict(self, h) ==
    [ret |-> [type_id |-> self.f["type_id"],
              type_name |-> self.f["type_name"],
              attributes |-> self.f["attributes"]],
     self |-> self,
     heap |-> h]

ItemType_lookups == <<"type_id", "type_name", "attributes">>

ItemType_from_dict(data, h) ==
    LET miss == FirstMissing(data, ItemType_lookups)
        made == ItemType_init([type_id |-> data["type_id"],
                               type_name |-> data["type_name"],
                               attributes |-> data["attributes"]], h)
    IN IF miss # 0
       THEN [ret |-> KeyError(ItemType_lookups[miss]), data |-> data, heap |-> h]
       ELSE [ret |-> made.ret, data |-> data, heap |-> made.heap]

----------------------------------------------------------------------------
(* class Demand *)

Demand_init(kw, now) ==
    [cls |-> "Demand",
     f |-> [demand_id |-> kw["demand_id"],
            demand_type |-> kw["demand_type"],
            description |-> kw["description"],
            publisher_id |-> kw["publisher_id"],
            create_time |-> Strftime(now)]]

\* mutant: to_dict leaves create_time out
Demand_to_dict_no_time(self) ==
    [ret |-> [demand_id |-> self.f["demand_id"],
              demand_type |-> self.f["demand_type"],
              description |-> self.f["description"],
              publisher_id |-> self.f["publisher_id"]],
     self |-> self]

Demand_to_dict(self) ==
    [ret |-> [demand_id |-> self.f["demand_id"],
              demand_type |-> self.f["demand_type"],
              description |-> self.f["description"],
              publisher_id |-> self.f["publisher_id"],
              create_time |-> self.f["create_time"]],
     self |-> self]

Demand_lookups == <<"demand_id", "demand_type", "description", "publisher_id">>

\* mutant: the fallback stamp is computed once, when the module is loaded
\* (tick 0), as a default evaluated at definition time would be
Demand_from_dict_stale(data, now1, now2) ==
    LET miss == FirstMissing(data, Demand_lookups)
        demand == Demand_init([demand_id |-> data["demand_id"],
                               demand_type |-> data["demand_type"],
                               description |-> data["description"],
                               publisher_id |-> data["publisher_id"]], now1)
    IN IF miss # 0
       THEN [ret |-> KeyError(Demand_lookups[miss]), data |-> data]
       ELSE [ret |-> [demand EXCEPT !.f["create_time"] =
                                       Get(data, "create_time", Strftime(0))],
             data |-> data]

Demand_from_dict(data, now1, now2) ==
    LET miss == FirstMissing(data, Demand_lookups)
        demand == Demand_init([demand_id |-> data["demand_id"],
                               demand_type |-> data["demand_type"],
                               description |-> data["description"],
                               publisher_id |-> data["publisher_id"]], now1)
    IN IF miss # 0
       THEN [ret |-> KeyError(Demand_lookups[miss]), data |-> data]
       ELSE [ret |-> [demand EXCEPT !.f["create_time"] =
                                       Get(data, "create_time", Strftime(now2))],
             data |-> data]

----------------------------------------------------------------------------
(* class Application *)

Application_init(kw, now) ==
    [cls |-> "Application",
     f |-> [application_id |-> kw["application_id"],
            app_type |-> kw["app_type"],
            content |-> kw["content"],
            app_status |-> Get(kw, "app_status", DEFAULT_APP_STATUS),
            applicant_id |-> kw["applicant_id"],
            create_time |-> Strftime(now)]]

Application_to_dict(self) ==
    [ret |-> [application_id |-> self.f["application_id"],
              app_type |-> self.f["app_type"],
              content |-> self.f["content"],
              app_status |-> self.f["app_status"],
              applicant_id |-> self.f["applicant_id"],
              create_time |-> self.f["create_time"]],
     self |-> self]

Application_lookups == <<"application_id", "app_type", "content", "applicant_id">>

\* mutant: data.get("create_time") or now, which replaces a stored "" too
Application_from_dict_or_now(data, now1, now2) ==
    LET miss == FirstMissing(data, Application_lookups)
        application ==
            Application_init([application_id |-> data["application_id"],
                              app_type |-> data["app_type"],
                              content |-> data["content"],
                              applicant_id |-> data["applicant_id"],
                              app_status |-> Get(data, "app_status", DEFAULT_APP_STATUS)],
                             now1)
        stored == Get(data, "create_time", "")
    IN IF miss # 0
       THEN [ret |-> KeyError(Application_lookups[miss]), data |-> data]
       ELSE [ret |-> [application EXCEPT !.f["create_time"] =
                                            IF stored = "" THEN Strftime(now2) ELSE stored],
             data |-> data]

Application_from_dict(data, now1, now2) ==
    LET miss == FirstMissing(data, Application_lookups)
        application ==
            Application_init([application_id |-> data["application_id"],
                              app_type |-> data["app_type"],
                              content |-> data["content"],
                              applicant_id |-> data["applicant_id"],
                              app_status |-> Get(data, "app_status", DEFAULT_APP_STATUS)],
                             now1)
    IN IF miss # 0
       THEN [ret |-> KeyError(Application_lookups[miss]), data |-> data]
       ELSE [ret |-> [application EXCEPT !.f["create_time"] =
                                            Get(data, "create_time", Strftime(now2))],
             data |-> data]

----------------------------------------------------------------------------
(* Dispatch on the class, as Python's method lookup does.  h is the heap.   *)

construct(c, kw, now, h) ==
    CASE c = "User" -> [ret |-> User_init(kw), heap |-> h]
      [] c = "Item" -> [ret |-> Item_init(kw, now), heap |-> h]
      [] c = "ItemType" -> ItemType_init(kw, h)
      [] c = "Demand" -> [ret |-> Demand_init(kw, now), heap |-> h]
      [] c = "Application" -> [ret |-> Application_init(kw, now), heap |-> h]

to_dict(self, h) ==
    CASE self.cls = "User" -> User_to_dict(self) @@ [heap |-> h]
      [] self.cls = "Item" -> Item_to_dict(self) @@ [heap |-> h]
      [] self.cls = "ItemType" -> ItemType_to_dict(self, h)
      [] self.cls = "Demand" -> Demand_to_dict(self) @@ [heap |-> h]
      [] self.cls = "Application" -> Application_to_dict(self) @@ [heap |-> h]

from_dict(c, data, now1, now2, h) ==
    CASE c = "User" -> User_from_dict(data) @@ [heap |-> h]
      [] c = "Item" -> Item_from_dict(data, now1, now2) @@ [heap |-> h]
      [] c = "ItemType" -> ItemType_from_dict(data, h)
      [] c = "Demand" -> Demand_from_dict(data, now1, now2) @@ [heap |-> h]
      [] c = "Application" -> Application_from_dict(data, now1, now2) @@ [heap |-> h]

\* the parameters of __init__ without a default value
RequiredArgs(c) ==
    CASE c = "User" -> {"user_id", "username", "password", "contact_info"}
      [] c = "Item" -> {"item_id", "item_name", "description", "item_type",
                        "contact_info", "owner_id"}
      [] c = "ItemType" -> {"type_id", "type_name", "attributes"}
      [] c = "Demand" -> {"demand_id", "demand_type", "description", "publisher_id"}
      [] c = "Application" -> {"application_id", "app_type", "content", "applicant_id"}

\* the parameters of __init__ with a default value
OptionalArgs(c) ==
    CASE c = "User" -> {"role"}
      [] c = "Item" -> {"image", "status"}
      [] c = "Application" -> {"app_status"}
      [] OTHER -> {}

\* the parameters whose value is a list
ListArgs(c) == IF c = "ItemType" THEN {"attributes"} ELSE {}

----------------------------------------------------------------------------
(* The inputs of a session *)

\* The string inputs over `keys`: each key has its own string, and at most one
\* key has the empty string instead
Varied(keys) ==
    {[k \in keys |-> IF k = e THEN "" ELSE StrOf(k)] : e \in keys \cup {"-"}}

\* the lists a caller passes, repeated labels and the empty list included
AttrLists == UNION {[1..n -> Labels] : n \in 0..MaxAttrs}

\* keyword arguments of a constructor call: every required one, any optional ones
KwArgs(c) ==
    UNION {Varied((RequiredArgs(c) \ ListArgs(c)) \cup O) : O \in SUBSET OptionalArgs(c)}

\* a key no entity has
UnknownKey == "extra"

\* the key sets of the stored mappings of class c: any of the entity's keys may
\* be absent, and an unknown key may be present
StoredKeySets(c) ==
    LET all == RequiredArgs(c) \cup OptionalArgs(c)
                 \cup (IF c \in TimeClasses THEN {"create_time"} ELSE {})
    IN {K \cup X : K \in SUBSET all, X \in {{}, {UnknownKey}}}

----------------------------------------------------------------------------
(* Initial state and operations *)

vars == <<clock, heap, ent, eby, dic, dby, muts, last>>

\* the content of the mapping or __dict__ m of class c, lists read in heap h
Deref(c, m, h) ==
    [k \in DOMAIN m |-> IF k \in ListArgs(c) THEN h[m[k]] ELSE m[k]]

Init ==
    /\ clock = 0
    /\ heap = <<>>
    /\ ent = <<>>
    /\ eby = <<>>
    /\ dic = <<>>
    /\ dby = <<>>
    /\ muts = 0
    /\ last = [op |-> "none"]

\* time passes between two calls
Tick ==
    /\ clock < MaxClock
    /\ clock' = clock + 1
    /\ UNCHANGED <<heap, ent, eby, dic, dby, muts, last>>

\* The caller constructs an entity of class c, as the first call of a session;
\* l is the list it passes (if the class takes one), `now` the constructor's
\* reading of the clock.
Construct(c) ==
    /\ ent = <<>> /\ dic = <<>>
    /\ \E kws \in KwArgs(c), l \in AttrLists, now \in clock..MaxClock :
         LET h0 == IF ListArgs(c) = {} THEN heap ELSE Append(heap, l)
             kw == IF ListArgs(c) = {} THEN kws ELSE kws @@ ("attributes" :> Len(h0))
             t == IF c \in TimeClasses THEN now ELSE clock
             r == construct(c, kw, t, h0)
         IN /\ c \notin TimeClasses => now = clock
            /\ ListArgs(c) = {} => l = <<>>
            /\ heap' = r.heap
            /\ ent' = <<r.ret>>
            /\ eby' = <<[by |-> "construct", kw |-> Deref(c, kw, h0),
                         made |-> Deref(c, r.ret.f, r.heap),
                         called |-> clock, returned |-> t]>>
            /\ clock' = t
            /\ last' = [op |-> "construct", cls |-> c, kw |-> Deref(c, kw, h0),
                        ret |-> r.ret, called |-> clock, returned |-> t]
    /\ UNCHANGED <<dic, dby, muts>>

\* ent[i].to_dict()
ToDict(i) ==
    /\ i \in 1..Len(ent)
    /\ Len(ent) + Len(dic) < MaxObjects
    /\ LET r == to_dict(ent[i], heap)
       IN /\ heap' = r.heap
          /\ ent' = [ent EXCEPT ![i] = r.self]
          /\ dic' = Append(dic, r.ret)
          /\ dby' = Append(dby, [by |-> "to_dict", of |-> i, cls |-> ent[i].cls,
                                 at |-> clock])
          /\ last' = [op |-> "to_dict", cls |-> ent[i].cls, self |-> i,
                      before |-> Deref(ent[i].cls, ent[i].f, heap), ret |-> r.ret]
    /\ UNCHANGED <<clock, eby, muts>>

\* What cls.from_dict(data) does to the state, for class c and the mapping
\* `data` held as dic[j], in heap h; now1 and now2 are the two readings of the
\* clock the call makes when no lookup raises.
CallFromDict(c, j, data, h, now1, now2) ==
    LET r == from_dict(c, data, now1, now2, h)
        raised == r.ret.cls \notin Classes
        reads == c \in TimeClasses /\ ~raised
    IN /\ ~reads => now1 = clock /\ now2 = clock
       /\ clock' = now2
       /\ heap' = r.heap
       /\ ent' = IF raised THEN ent ELSE Append(ent, r.ret)
       /\ eby' = IF raised THEN eby
                 ELSE Append(eby, [by |-> "from_dict", of |-> j,
                                   data |-> Deref(c, data, h),
                                   called |-> clock, returned |-> now2])
       /\ last' = [op |-> "from_dict", cls |-> c, of |-> j, data |-> data,
                   datav |-> Deref(c, data, h), after |-> r.data, ret |-> r.ret,
                   called |-> clock, returned |-> now2, nent |-> Len(ent)]

\* cls.from_dict(dic[j]) on a mapping the caller holds: one that to_dict
\* returned, or the stored one again
FromDict(j) ==
    /\ j \in 1..Len(dic)
    /\ Len(ent) + Len(dic) < MaxObjects
    /\ \E now1 \in clock..MaxClock :
         \E now2 \in now1..MaxClock :
           /\ CallFromDict(dby[j].cls, j, dic[j], heap, now1, now2)
           /\ dic' = [dic EXCEPT ![j] = last'.after]
    /\ UNCHANGED <<dby, muts>>

\* cls.from_dict(data) on a mapping parsed from storage (json.load: its lists
\* are new objects), as the first call of a session
FromStored(c) ==
    /\ ent = <<>> /\ dic = <<>>
    /\ \E K \in StoredKeySets(c), l \in AttrLists :
         \E m \in Varied(K \ ListArgs(c)), now1 \in clock..MaxClock :
           \E now2 \in now1..MaxClock :
             LET hasList == K \cap ListArgs(c) # {}
                 h0 == IF hasList THEN Append(heap, l) ELSE heap
                 data == IF hasList THEN m @@ ("attributes" :> Len(h0)) ELSE m
             IN /\ ~hasList => l = <<>>
                /\ CallFromDict(c, 1, data, h0, now1, now2)
                /\ dic' = <<last'.after>>
                /\ dby' = <<[by |-> "storage", cls |-> c, at |-> clock]>>
    /\ UNCHANGED muts

\* the calls of a session on the classes CS
Calls(CS) ==
    \/ Tick
    \/ \E c \in CS : Construct(c)
    \/ \E c \in CS : FromStored(c)
    \/ \E i \in 1..MaxObjects : ToDict(i)
    \/ \E j \in 1..MaxObjects : FromDict(j)

Next == Calls(Classes)

Spec == Init /\ [][Next]_vars

----------------------------------------------------------------------------
(* The caller changes an object it holds.  Fields are plain attributes, the  *)
(* mappings plain dicts and the attribute lists plain lists, so the caller   *)
(* can rebind a field, set a key, or append to a list in place.              *)

\* ent[i].attributes.append(x)
AppendAttribute(i, x) ==
    /\ muts < MaxMuts
    /\ i \in 1..Len(ent)
    /\ "attributes" \in DOMAIN ent[i].f
    /\ heap' = [heap EXCEPT ![ent[i].f["attributes"]] = Append(@, x)]
    /\ muts' = muts + 1
    /\ last' = [op |-> "mutate", target |-> <<"ent", i>>]
    /\ UNCHANGED <<clock, ent, eby, dic, dby>>

\* ent[i].k = "changed", for a string field k
SetAttr(i, k) ==
    /\ muts < MaxMuts
    /\ i \in 1..Len(ent)
    /\ k \in DOMAIN ent[i].f \ ListArgs(ent[i].cls)
    /\ ent' = [ent EXCEPT ![i].f[k] = "changed"]
    /\ muts' = muts + 1
    /\ last' = [op |-> "mutate", target |-> <<"ent", i>>]
    /\ UNCHANGED <<clock, heap, eby, dic, dby>>

\* dic[j][k] = "changed", for a key k that holds a string
SetItem(j, k) ==
    /\ muts < MaxMuts
    /\ j \in 1..Len(dic)
    /\ k \in DOMAIN dic[j] \ ListArgs(dby[j].cls)
    /\ dic' = [dic EXCEPT ![j][k] = "changed"]
    /\ muts' = muts + 1
    /\ last' = [op |-> "mutate", target |-> <<"dic", j>>]
    /\ UNCHANGED <<clock, heap, ent, eby, dby>>

\* every key of every class
AllKeys ==
    UNION {RequiredArgs(c) \cup OptionalArgs(c) : c \in Classes}
      \cup {"create_time", UnknownKey}

\* The sessions with in-place changes are explored for one class with a list
\* field and one class with string fields only.
MutClasses == {"ItemType", "User"}

NextMut ==
    \/ Calls(MutClasses)
    \/ \E i \in 1..MaxObjects, x \in Labels : AppendAttribute(i, x)
    \/ \E i \in 1..MaxObjects, k \in AllKeys : SetAttr(i, k)
    \/ \E j \in 1..MaxObjects, k \in AllKeys : SetItem(j, k)

SpecMut == Init /\ [][NextMut]_vars

----------------------------------------------------------------------------
(* The vocabulary of the claims: the field tables of the data model *)

TableFields(c) ==
    CASE c = "User" -> {"user_id", "username", "password", "contact_info", "role"}
      [] c = "ItemType" -> {"type_id", "type_name", "attributes"}
      [] c = "Item" -> {"item_id", "item_name", "description", "item_type", "image",
                        "contact_info", "status", "owner_id", "create_time"}
      [] c = "Demand" -> {"demand_id", "demand_type", "description", "publisher_id",
                          "create_time"}
      [] c = "Application" -> {"application_id", "app_type", "content", "app_status",
                               "applicant_id", "create_time"}

StatedOptional(c) ==
    CASE c = "User" -> {"role"}
      [] c = "Item" -> {"image", "status"}
      [] c = "Application" -> {"app_status"}
      [] OTHER -> {}

StatedDefault(k) ==
    CASE k = "role" -> "putong_yonghu"
      [] k = "image" -> ""
      [] k = "status" -> "yi_fabu"
      [] k = "app_status" -> "dai_chuli"

StatedRequired(c) == TableFields(c) \ (StatedOptional(c) \cup {"create_time"})

\* ent[i] was made by from_dict from a mapping to_dict returned for an entity
\* that a constructor call made
IsRoundTrip(i) ==
    /\ eby[i].by = "from_dict"
    /\ dby[eby[i].of].by = "to_dict"
    /\ eby[dby[eby[i].of].of].by = "construct"

\* the constructor call at the start of the round trip that ends in ent[i]
Origin(i) == eby[dby[eby[i].of].of]

\* dic[j] was returned by to_dict for an entity that from_dict made from a
\* mapping read from storage
IsStoredTrip(j) ==
    /\ dby[j].by = "to_dict"
    /\ eby[dby[j].of].by = "from_dict"
    /\ dby[eby[dby[j].of].of].by = "storage"

\* the last call was from_dict, on a mapping with every required key
LastFromDictComplete ==
    /\ last.op = "from_dict"
    /\ StatedRequired(last.cls) \subseteq DOMAIN last.data

----------------------------------------------------------------------------
(* The claims *)

\* C1: round trip.  An entity made by from_dict(to_dict(construct(fields))) has
\* exactly the fields of its table, each equal to the field of the constructed
\* entity: the supplied value where one was supplied, the stated default where
\* an optional field was omitted, and the create_time of the construction,
\* whatever the clock reads when from_dict runs.
C1_RoundTrip ==
    \A i \in 1..Len(ent) :
      IsRoundTrip(i) =>
        LET c == ent[i].cls
            got == Deref(c, ent[i].f, heap)
            orig == Origin(i)
        IN /\ DOMAIN got = TableFields(c)
           /\ got = orig.made
           /\ \A k \in DOMAIN orig.kw : got[k] = orig.kw[k]
           /\ \A k \in StatedOptional(c) \ DOMAIN orig.kw : got[k] = StatedDefault(k)
           /\ c \in TimeClasses =>
                \E r \in orig.called..orig.returned : got["create_time"] = Strftime(r)

\* C1 witness: an Item constructed without image and status has gone through
\* to_dict and from_dict, and from_dict ran in a later second than the constructor
C1_Witness ==
    \E i \in 1..Len(ent) :
      /\ IsRoundTrip(i)
      /\ ent[i].cls = "Item"
      /\ DOMAIN Origin(i).kw = RequiredArgs("Item")
      /\ Strftime(eby[i].called) # Strftime(Origin(i).returned)
      /\ ent[i].f["create_time"] = Strftime(Origin(i).returned)

\* C2: fidelity from storage.  For a stored mapping m whose keys are exactly the
\* fields of the entity's table, to_dict(from_dict(m)) equals m key for key and
\* value for value, the create_time of m included.
C2_StoredFidelity ==
    \A j \in 1..Len(dic) :
      (IsStoredTrip(j) /\ DOMAIN eby[dby[j].of].data = TableFields(dby[j].cls)) =>
        Deref(dby[j].cls, dic[j], heap) = eby[dby[j].of].data

\* C2 witness: an Application read from storage with an old create_time has been
\* rebuilt and serialized again, in a second that formats differently
C2_Witness ==
    \E j \in 1..Len(dic) :
      /\ IsStoredTrip(j)
      /\ dby[j].cls = "Application"
      /\ DOMAIN eby[dby[j].of].data = TableFields("Application")
      /\ eby[dby[j].of].data["create_time"] = OldStamp
      /\ dic[j]["create_time"] = OldStamp
      /\ Strftime(eby[dby[j].of].returned) # OldStamp

\* C3: missing required field.  from_dict on a mapping that lacks a required key
\* raises KeyError for a key the mapping lacks, and makes no entity, whatever
\* optional keys or create_time the mapping holds.
C3_MissingRequired ==
    (last.op = "from_dict" /\ ~(StatedRequired(last.cls) \subseteq DOMAIN last.data)) =>
      /\ last.ret.cls = "KeyError"
      /\ last.ret.key \in StatedRequired(last.cls) \ DOMAIN last.data
      /\ Len(ent) = last.nent

\* C3 witness: Item.from_dict raised on a mapping that has image, status and
\* create_time and lacks only owner_id
C3_Witness ==
    /\ last.op = "from_dict"
    /\ last.cls = "Item"
    /\ DOMAIN last.data = TableFields("Item") \ {"owner_id"}
    /\ last.ret.cls = "KeyError"
    /\ ent = <<>>

\* C4: defaulting.  A constructor call or a from_dict call sets an optional
\* field to the stated default exactly when the argument or key is absent, and
\* to the given value when it is present, the empty string included.
C4_Defaulting ==
    /\ last.op = "construct" =>
         \A k \in StatedOptional(last.cls) :
           last.ret.f[k] = IF k \in DOMAIN last.kw THEN last.kw[k] ELSE StatedDefault(k)
    /\ LastFromDictComplete =>
         /\ last.ret.cls = last.cls
         /\ \A k \in StatedOptional(last.cls) :
              last.ret.f[k] = IF k \in DOMAIN last.data THEN last.data[k]
                              ELSE StatedDefault(k)

\* C4 witness: User.from_dict got a mapping whose role is the empty string
C4_Witness ==
    /\ LastFromDictComplete
    /\ last.cls = "User"
    /\ "role" \in DOMAIN last.data
    /\ last.data["role"] = ""
    /\ last.ret.f["role"] = ""

\* C5: timestamp fabrication.  from_dict of Item, Demand or Application on a
\* mapping with every required key and no create_time returns an entity whose
\* create_time is the formatted reading of the clock at some moment between the
\* call and the return; a constructor call sets create_time likewise.
C5_TimestampFabrication ==
    /\ (LastFromDictComplete /\ last.cls \in TimeClasses
          /\ "create_time" \notin DOMAIN last.data) =>
         /\ last.ret.cls = last.cls
         /\ \E r \in last.called..last.returned : last.ret.f["create_time"] = Strftime(r)
    /\ (last.op = "construct" /\ last.cls \in TimeClasses) =>
         \E r \in last.called..last.returned : last.ret.f["create_time"] = Strftime(r)

\* C5 witness: Demand.from_dict was called without create_time in a second
\* later than the one of tick 0, and stamped the entity with the later second
C5_Witness ==
    /\ LastFromDictComplete
    /\ last.cls = "Demand"
    /\ "create_time" \notin DOMAIN last.data
    /\ Strftime(last.called) # Strftime(0)
    /\ last.ret.f["create_time"] = Strftime(last.returned)

\* C6: to_dict is idempotent and has no side effect.  Two mappings that
\* to_dict returned for one instance are equal, whenever the calls were made,
\* and the instance has after a call the fields it had before.
C6_ToDictIdempotent ==
    /\ \A j1, j2 \in 1..Len(dic) :
         (dby[j1].by = "to_dict" /\ dby[j2].by = "to_dict" /\ dby[j1].of = dby[j2].of) =>
           Deref(dby[j1].cls, dic[j1], heap) = Deref(dby[j2].cls, dic[j2], heap)
    /\ last.op = "to_dict" =>
         Deref(last.cls, ent[last.self].f, heap) = last.before

\* C6 witness: to_dict was called twice on one Item, in two different seconds
C6_Witness ==
    \E j1, j2 \in 1..Len(dic) :
      /\ j1 < j2
      /\ dby[j1].by = "to_dict" /\ dby[j2].by = "to_dict"
      /\ dby[j1].of = dby[j2].of
      /\ dby[j1].cls = "Item"
      /\ Strftime(dby[j1].at) # Strftime(dby[j2].at)

\* C7: serialized shape.  A mapping returned by to_dict has exactly the keys of
\* the entity's table, each with the instance's value of that field, however
\* the instance was made.
C7_SerializedShape ==
    \A j \in 1..Len(dic) :
      dby[j].by = "to_dict" =>
        /\ DOMAIN dic[j] = TableFields(dby[j].cls)
        /\ \A k \in TableFields(dby[j].cls) : dic[j][k] = ent[dby[j].of].f[k]

\* C7 witness: to_dict was called on a Demand that from_dict made from a stored
\* mapping without create_time
C7_Witness ==
    \E j \in 1..Len(dic) :
      /\ IsStoredTrip(j)
      /\ dby[j].cls = "Demand"
      /\ DOMAIN eby[dby[j].of].data = StatedRequired("Demand")
      /\ DOMAIN dic[j] = TableFields("Demand")

\* C8: attribute order.  The attributes of an ItemType made by
\* from_dict(to_dict(construct(..., attributes))) have the length of the list
\* supplied and the same label at every position.
C8_AttributeOrder ==
    \A i \in 1..Len(ent) :
      (IsRoundTrip(i) /\ ent[i].cls = "ItemType") =>
        LET got == heap[ent[i].f["attributes"]]
            given == Origin(i).kw["attributes"]
        IN /\ Len(got) = Len(given)
           /\ \A n \in 1..Len(given) : got[n] = given[n]

\* C8 witness: an ItemType constructed with one label twice has gone through
\* to_dict and from_dict
C8_Witness ==
    \E i \in 1..Len(ent) :
      /\ IsRoundTrip(i)
      /\ ent[i].cls = "ItemType"
      /\ Len(Origin(i).kw["attributes"]) = 2
      /\ Origin(i).kw["attributes"][1] = Origin(i).kw["attributes"][2]
      /\ Len(heap[ent[i].f["attributes"]]) = 2

\* C9: no shared mutable state.  When the caller changes one entity instance
\* or one mapping in place, the field values of every other entity instance
\* stay as they were.
C9_NoSharedMutableState ==
    [][muts' = muts + 1 =>
         \A i \in 1..Len(ent) :
           last'.target # <<"ent", i>> =>
             Deref(ent[i].cls, ent'[i].f, heap') = Deref(ent[i].cls, ent[i].f, heap)]_vars

\* C10: unknown keys are ignored.  from_dict on a mapping with every required
\* key and a key that is no field of the entity returns what it returns for
\* the mapping without that key, leaves the mapping as it was, and to_dict of
\* the entity does not have the key.
C10_UnknownKeysIgnored ==
    /\ (LastFromDictComplete /\ ~(DOMAIN last.data \subseteq TableFields(last.cls))) =>
         LET own == DOMAIN last.data \cap TableFields(last.cls)
             m0 == [k \in own |-> last.data[k]]
         IN /\ last.ret.cls = last.cls
            /\ last.ret = from_dict(last.cls, m0, last.called, last.returned, heap).ret
            /\ last.after = last.data
            /\ dic[last.of] = last.data
    /\ \A j \in 1..Len(dic) :
         IsStoredTrip(j) => DOMAIN dic[j] \subseteq TableFields(dby[j].cls)

\* C10 witness: a User was made from a stored mapping with an unknown key and
\* then serialized
C10_Witness ==
    \E j \in 1..Len(dic) :
      /\ IsStoredTrip(j)
      /\ dby[j].cls = "User"
      /\ UnknownKey \in DOMAIN eby[dby[j].of].data
      /\ UnknownKey \notin DOMAIN dic[j]

====
